---- MODULE Spec2Model ----
(***************************************************************************)
(* A model of the rustbook HTTP server: the worker pool of                 *)
(* src/thread_pool.rs and the router, middleware chain and accept loop of  *)
(* src/main.rs.                                                            *)
(*                                                                         *)
(* Specifications:                                                         *)
(*   Spec       the worker pool under every interleaving (jobs take an     *)
(*              arbitrary time; a job may panic, which unwinds its worker  *)
(*              thread because Worker::new has no catch_unwind)            *)
(*   SpecTimed  the worker pool running jobs that sleep for a known number *)
(*              of seconds, every other step taking negligible time        *)
(*   SpecDispatch  HttpServer::dispatch_request over bounded route and     *)
(*              middleware tables; what a middleware or a handler does     *)
(*              (fn pointers, opaque to the server) is chosen when it is   *)
(*              invoked                                                    *)
(***************************************************************************)
EXTENDS Integers, Sequences, FiniteSets, TLC

\* ------------------------------------------------------------------ bounds
MaxSize == 2          \* largest pool size tried (sizes 0..MaxSize)
MaxJobs == 3          \* jobs the accept loop submits in Spec
MaxTimedJobs == 4     \* jobs submitted in SpecTimed
MaxRoutes == 2        \* longest route table tried
MaxMw == 2            \* longest middleware table tried
MaxLines == 2         \* lines a connection sends after its first one
MaxQueryLen == 5      \* longest raw query string tried
MaxBuildOps == 2      \* builder calls applied to a constructed response

\* sleep lengths (seconds) of the jobs of tests::test_thread_pool
Durations == {0, 3, 5}

NoWorker == -1        \* the queue lock is free
NoJob == 0
NoArg == -1

VARIABLES
    plan,         \* the jobs the caller is going to submit: [dur, outcome]
    poolState,    \* "none" | "err" | "live" | "dropping" | "dropped" | "dropPanicked"
    size,         \* workers.len()
    wpc,          \* worker id -> "lock" | "recv" | "run" | "exited" | "panicked"
    wjob,         \* worker id -> the job it is executing, or NoJob
    wrem,         \* worker id -> seconds its job still sleeps
    lockHolder,   \* owner of the Mutex around the Receiver, or NoWorker
    queue,        \* the mpsc channel: job ids sent and not yet received
    txOpen,       \* ThreadPool.tx is Some (the Sender is alive)
    joinIdx,      \* the worker drop() is joining
    nsub,         \* executes called so far
    accepted,     \* ids of the jobs execute returned Ok for
    started,      \* job ids in the order workers took them
    completed,    \* job ids in the order they ran to completion
    startedBy,    \* job id -> set of workers that ran it
    lastResult,   \* what the last execute returned: "none" | "Ok" | "SendError"
    logged,       \* "server: {e}" lines printed by the accept loop
    acceptLoop,   \* "running" | "panicked"
    newArg,       \* the size ThreadPool::new was called with, NoArg before
    pendingAtDrop \* accepted jobs not yet completed when drop began

VARIABLES
    handlers,     \* HttpServer.handlers: sequence of RequestMapping
    middlewares,  \* HttpServer.middlewares: sequence of Middleware
    dpc,          \* dispatch_request: "idle" | "chain" | "done"
    request,      \* Option of the HttpRequest being dispatched
    matched,      \* index of the mapping find() returned, NoMatch for None
    chain,        \* the MiddlewareChain of the request
    ctxResponse,  \* Context.response
    stack,        \* middleware calls in progress, innermost last
    trace,        \* what ran for this request, in order
    result        \* Option of what dispatch_request returned

VARIABLES
    conn,         \* the lines the peer sent on the connection
    peerOk,       \* stream.peer_addr() succeeds
    jpc,          \* the job: "start" | "parsed" | "end" | "panicked"
    parsed,       \* what parse_http_request returned
    shut,         \* the connection was shut down in both directions
    responded     \* handler_response was called

parseVars == <<conn, peerOk, jpc, parsed, shut, responded>>

VARIABLES
    query_string, \* HttpRequest.query_string: None or Some(raw string)
    params,       \* HttpRequest.params: None until the first access
    qkey,         \* the key of the last access
    qres          \* what the last access returned

queryVars == <<query_string, params, qkey, qres>>

VARIABLES
    response,     \* the HttpResponse being built, then written
    nbuild,       \* builder calls applied so far
    hpc,          \* "build" | "status" | "headers" | "content" | "done" | "panicked"
    opened,       \* File::open of the view or file: "none" | "ok" | "err"
    content,      \* the body chunk still to send after the head, if any
    todo,         \* header keys not yet written
    out           \* the chunks the connection received, in order

writerVars == <<response, nbuild, hpc, opened, content, todo, out>>

ioVars == <<parseVars, queryVars, writerVars>>

dispVars == <<handlers, middlewares, dpc, request, matched, chain, ctxResponse,
              stack, trace, result>>

poolVars == <<plan, poolState, size, wpc, wjob, wrem, lockHolder, queue, txOpen,
              joinIdx, nsub, accepted, started, completed, startedBy,
              lastResult, logged, acceptLoop, newArg, pendingAtDrop>>

vars == <<poolVars, dispVars, ioVars>>

Workers == DOMAIN wpc

Range(f) == {f[i] : i \in DOMAIN f}

\* Every clone of the Arc<Mutex<Receiver>> is owned by a worker thread (new
\* drops its own clone on return), so the Receiver is dropped, and the channel
\* closed on the consuming side, once every worker thread has ended.
RxClosed == poolState \notin {"none", "err"}
            /\ \A w \in Workers : wpc[w] \in {"exited", "panicked"}

\* ------------------------------------------------------------- ThreadPool
\* variant: the size check lets 0 through
ThreadPool_new_zero(sz) ==
    /\ poolState = "none"
    /\ IF sz < 0
       THEN /\ poolState' = "err"
            /\ UNCHANGED <<size, wpc, wjob, wrem, txOpen>>
       ELSE /\ poolState' = "live"
            /\ size' = sz
            /\ wpc' = [i \in 0..(sz - 1) |-> "lock"]
            /\ wjob' = [i \in 0..(sz - 1) |-> NoJob]
            /\ wrem' = [i \in 0..(sz - 1) |-> 0]
            /\ txOpen' = TRUE
    /\ newArg' = sz
    /\ UNCHANGED <<dispVars, ioVars>>
    /\ UNCHANGED <<plan, lockHolder, queue, joinIdx, nsub, accepted, started,
                   completed, startedBy, lastResult, logged, acceptLoop,
                   pendingAtDrop>>

ThreadPool_new(sz) ==
    /\ poolState = "none"
    /\ IF sz < 1
       THEN /\ poolState' = "err"
            /\ UNCHANGED <<size, wpc, wjob, wrem, txOpen>>
       ELSE /\ poolState' = "live"
            /\ size' = sz
            /\ wpc' = [i \in 0..(sz - 1) |-> "lock"]
            /\ wjob' = [i \in 0..(sz - 1) |-> NoJob]
            /\ wrem' = [i \in 0..(sz - 1) |-> 0]
            /\ txOpen' = TRUE
    /\ newArg' = sz
    /\ UNCHANGED <<dispVars, ioVars>>
    /\ UNCHANGED <<plan, lockHolder, queue, joinIdx, nsub, accepted, started,
                   completed, startedBy, lastResult, logged, acceptLoop,
                   pendingAtDrop>>

\* variant: send(task).unwrap() instead of the ? operator
execute_unwrap(job) ==
    IF RxClosed
    THEN /\ lastResult' = "panic"
         /\ UNCHANGED <<queue, accepted>>
    ELSE /\ lastResult' = "Ok"
         /\ queue' = Append(queue, job)
         /\ accepted' = accepted \cup {job}

\* self.tx.as_ref().unwrap().send(task)?  : Ok queues the job, Err hands the
\* job back in a SendError when the Receiver is gone.
execute(job) ==
    IF RxClosed
    THEN /\ lastResult' = "SendError"
         /\ UNCHANGED <<queue, accepted>>
    ELSE /\ lastResult' = "Ok"
         /\ queue' = Append(queue, job)
         /\ accepted' = accepted \cup {job}

\* One iteration of the accept loop of HttpServer::run: submit the next
\* connection's job; log a submission error and go on.  execute borrows the
\* pool, so it cannot run once drop (which owns the pool) has begun.
HttpServer_run ==
    /\ poolState = "live"
    /\ acceptLoop = "running"
    /\ nsub < Len(plan)
    /\ nsub' = nsub + 1
    /\ execute(nsub + 1)
    /\ logged' = IF lastResult' = "SendError" THEN logged + 1 ELSE logged
    /\ acceptLoop' = IF lastResult' = "panic" THEN "panicked" ELSE "running"
    /\ UNCHANGED <<dispVars, ioVars>>
    /\ UNCHANGED <<plan, poolState, size, wpc, wjob, wrem, lockHolder, txOpen,
                   joinIdx, started, completed, startedBy, newArg,
                   pendingAtDrop>>

\* ----------------------------------------------------------------- Worker
\* arx.lock().unwrap() : the mutex is never poisoned, because the guard is
\* only held across recv(), which does not panic.
Worker_lock(w) ==
    /\ w \in Workers
    /\ wpc[w] = "lock"
    /\ lockHolder = NoWorker
    /\ lockHolder' = w
    /\ wpc' = [wpc EXCEPT ![w] = "recv"]
    /\ UNCHANGED <<dispVars, ioVars>>
    /\ UNCHANGED <<plan, poolState, size, wjob, wrem, queue, txOpen, joinIdx,
                   nsub, accepted, started, completed, startedBy, lastResult,
                   logged, acceptLoop, newArg, pendingAtDrop>>

\* variant: the guard of the queue lock lives until the job has run
Worker_recv_holding(w) ==
    /\ w \in Workers
    /\ wpc[w] = "recv"
    /\ lockHolder = w
    /\ \/ /\ queue # <<>>
          /\ queue' = Tail(queue)
          /\ wpc' = [wpc EXCEPT ![w] = "run"]
          /\ wjob' = [wjob EXCEPT ![w] = Head(queue)]
          /\ wrem' = [wrem EXCEPT ![w] = plan[Head(queue)].dur]
          /\ started' = Append(started, Head(queue))
          /\ startedBy' = [startedBy EXCEPT ![Head(queue)] = @ \cup {w}]
       \/ /\ queue = <<>>
          /\ ~txOpen
          /\ wpc' = [wpc EXCEPT ![w] = "exited"]
          /\ UNCHANGED <<queue, wjob, wrem, started, startedBy>>
    /\ lockHolder' = IF wpc'[w] = "run" THEN w ELSE NoWorker
    /\ UNCHANGED <<dispVars, ioVars>>
    /\ UNCHANGED <<plan, poolState, size, txOpen, joinIdx, nsub, accepted,
                   completed, lastResult, logged, acceptLoop, newArg,
                   pendingAtDrop>>

\* variant: recv hands out the oldest job without taking it off the channel
Worker_recv_peek(w) ==
    /\ w \in Workers
    /\ wpc[w] = "recv"
    /\ lockHolder = w
    /\ \/ /\ queue # <<>>
          /\ queue' = queue
          /\ wpc' = [wpc EXCEPT ![w] = "run"]
          /\ wjob' = [wjob EXCEPT ![w] = Head(queue)]
          /\ wrem' = [wrem EXCEPT ![w] = plan[Head(queue)].dur]
          /\ started' = Append(started, Head(queue))
          /\ startedBy' = [startedBy EXCEPT ![Head(queue)] = @ \cup {w}]
       \/ /\ queue = <<>>
          /\ ~txOpen
          /\ wpc' = [wpc EXCEPT ![w] = "exited"]
          /\ UNCHANGED <<queue, wjob, wrem, started, startedBy>>
    /\ lockHolder' = NoWorker
    /\ UNCHANGED <<dispVars, ioVars>>
    /\ UNCHANGED <<plan, poolState, size, txOpen, joinIdx, nsub, accepted,
                   completed, lastResult, logged, acceptLoop, newArg,
                   pendingAtDrop>>

\* variant: the channel hands out the newest job first
Worker_recv_lifo(w) ==
    /\ w \in Workers
    /\ wpc[w] = "recv"
    /\ lockHolder = w
    /\ \/ /\ queue # <<>>
          /\ queue' = SubSeq(queue, 1, Len(queue) - 1)
          /\ wpc' = [wpc EXCEPT ![w] = "run"]
          /\ wjob' = [wjob EXCEPT ![w] = queue[Len(queue)]]
          /\ wrem' = [wrem EXCEPT ![w] = plan[queue[Len(queue)]].dur]
          /\ started' = Append(started, queue[Len(queue)])
          /\ startedBy' = [startedBy EXCEPT ![queue[Len(queue)]] = @ \cup {w}]
       \/ /\ queue = <<>>
          /\ ~txOpen
          /\ wpc' = [wpc EXCEPT ![w] = "exited"]
          /\ UNCHANGED <<queue, wjob, wrem, started, startedBy>>
    /\ lockHolder' = NoWorker
    /\ UNCHANGED <<dispVars, ioVars>>
    /\ UNCHANGED <<plan, poolState, size, txOpen, joinIdx, nsub, accepted,
                   completed, lastResult, logged, acceptLoop, newArg,
                   pendingAtDrop>>

\* .recv() under the lock; the guard is a temporary of the let statement and
\* is released when the statement ends, before the job runs.  recv hands out
\* the queued jobs first and fails only on an empty channel whose Sender is
\* gone.
Worker_recv(w) ==
    /\ w \in Workers
    /\ wpc[w] = "recv"
    /\ lockHolder = w
    /\ \/ /\ queue # <<>>
          /\ queue' = Tail(queue)
          /\ wpc' = [wpc EXCEPT ![w] = "run"]
          /\ wjob' = [wjob EXCEPT ![w] = Head(queue)]
          /\ wrem' = [wrem EXCEPT ![w] = plan[Head(queue)].dur]
          /\ started' = Append(started, Head(queue))
          /\ startedBy' = [startedBy EXCEPT ![Head(queue)] = @ \cup {w}]
       \/ /\ queue = <<>>
          /\ ~txOpen
          /\ wpc' = [wpc EXCEPT ![w] = "exited"]
          /\ UNCHANGED <<queue, wjob, wrem, started, startedBy>>
    /\ lockHolder' = NoWorker
    /\ UNCHANGED <<dispVars, ioVars>>
    /\ UNCHANGED <<plan, poolState, size, txOpen, joinIdx, nsub, accepted,
                   completed, lastResult, logged, acceptLoop, newArg,
                   pendingAtDrop>>

\* job() returns, or panics and unwinds the worker thread; a job that never
\* returns ("stall") keeps its worker in "run".
Worker_job(w) ==
    /\ w \in Workers
    /\ wpc[w] = "run"
    /\ wrem[w] = 0
    /\ plan[wjob[w]].outcome # "stall"
    /\ IF plan[wjob[w]].outcome = "panic"
       THEN /\ wpc' = [wpc EXCEPT ![w] = "panicked"]
            /\ UNCHANGED completed
       ELSE /\ wpc' = [wpc EXCEPT ![w] = "lock"]
            /\ completed' = Append(completed, wjob[w])
    /\ wjob' = [wjob EXCEPT ![w] = NoJob]
    /\ UNCHANGED <<dispVars, ioVars>>
    /\ UNCHANGED <<plan, poolState, size, wrem, lockHolder, queue, txOpen,
                   joinIdx, nsub, accepted, started, startedBy, lastResult,
                   logged, acceptLoop, newArg, pendingAtDrop>>

\* ------------------------------------------------------------------- Drop
\* variant: the sender is kept while the workers are joined
Drop_begin_keep_tx ==
    /\ poolState = "live"
    /\ poolState' = "dropping"
    /\ txOpen' = txOpen
    /\ joinIdx' = 0
    /\ pendingAtDrop' = accepted \ Range(completed)
    /\ UNCHANGED <<dispVars, ioVars>>
    /\ UNCHANGED <<plan, size, wpc, wjob, wrem, lockHolder, queue, nsub,
                   accepted, started, completed, startedBy, lastResult, logged,
                   acceptLoop, newArg>>

\* drop(self.tx.take())
Drop_begin ==
    /\ poolState = "live"
    /\ poolState' = "dropping"
    /\ txOpen' = FALSE
    /\ joinIdx' = 0
    /\ pendingAtDrop' = accepted \ Range(completed)
    /\ UNCHANGED <<dispVars, ioVars>>
    /\ UNCHANGED <<plan, size, wpc, wjob, wrem, lockHolder, queue, nsub,
                   accepted, started, completed, startedBy, lastResult, logged,
                   acceptLoop, newArg>>

\* worker.handler.join().unwrap() for the next worker of the drain: blocks
\* until that thread has ended; join gives Err for a thread that panicked and
\* the unwrap then panics out of drop.
\* variant: the handle is detached instead of joined
JoinReady_detached(w) == TRUE
JoinReady(w) == wpc[w] \in {"exited", "panicked"}
Drop_join ==
    /\ poolState = "dropping"
    /\ joinIdx < size
    /\ JoinReady(joinIdx)
    /\ IF wpc[joinIdx] = "panicked"
       THEN /\ poolState' = "dropPanicked"
            /\ UNCHANGED joinIdx
       ELSE /\ joinIdx' = joinIdx + 1
            /\ poolState' = IF joinIdx + 1 = size THEN "dropped" ELSE "dropping"
    /\ UNCHANGED <<dispVars, ioVars>>
    /\ UNCHANGED <<plan, size, wpc, wjob, wrem, lockHolder, queue, txOpen, nsub,
                   accepted, started, completed, startedBy, lastResult, logged,
                   acceptLoop, newArg, pendingAtDrop>>

\* ------------------------------------------------------------------- time
\* A step that can be taken now is taken before the clock moves: locking,
\* receiving, finishing a job whose sleep is over, the caller's next execute
\* and a join that is ready all take negligible time next to a second.
Urgent ==
    \/ poolState = "none"
    \/ poolState = "live" /\ acceptLoop = "running" /\ nsub < Len(plan)
    \/ poolState = "dropping" /\ joinIdx < size /\ JoinReady(joinIdx)
    \/ \E w \in Workers :
          \/ wpc[w] = "lock" /\ lockHolder = NoWorker
          \/ wpc[w] = "recv" /\ (queue # <<>> \/ ~txOpen)
          \/ wpc[w] = "run" /\ wrem[w] = 0

\* variant: only one job at a time makes progress
Tick_serial ==
    /\ ~Urgent
    /\ \E w \in Workers : wpc[w] = "run" /\ wrem[w] > 0
    /\ LET r == CHOOSE w \in Workers :
                  /\ wpc[w] = "run" /\ wrem[w] > 0
                  /\ \A v \in Workers :
                        (wpc[v] = "run" /\ wrem[v] > 0) => wjob[w] <= wjob[v]
       IN wrem' = [wrem EXCEPT ![r] = @ - 1]
    /\ UNCHANGED <<dispVars, ioVars>>
    /\ UNCHANGED <<plan, poolState, size, wpc, wjob, lockHolder, queue, txOpen,
                   joinIdx, nsub, accepted, started, completed, startedBy,
                   lastResult, logged, acceptLoop, newArg, pendingAtDrop>>

\* one second of thread::sleep passes in every sleeping job
Tick ==
    /\ ~Urgent
    /\ \E w \in Workers : wpc[w] = "run" /\ wrem[w] > 0
    /\ wrem' = [w \in Workers |->
                  IF wpc[w] = "run" /\ wrem[w] > 0 THEN wrem[w] - 1 ELSE wrem[w]]
    /\ UNCHANGED <<dispVars, ioVars>>
    /\ UNCHANGED <<plan, poolState, size, wpc, wjob, lockHolder, queue, txOpen,
                   joinIdx, nsub, accepted, started, completed, startedBy,
                   lastResult, logged, acceptLoop, newArg, pendingAtDrop>>

\* ================================================================ strings
\* A String is the sequence of its characters.
StartsWith(s, p) == Len(p) <= Len(s) /\ SubSeq(s, 1, Len(p)) = p
EndsWith(s, p) == Len(p) <= Len(s) /\ SubSeq(s, Len(s) - Len(p) + 1, Len(s)) = p

\* str::replace: every non-overlapping occurrence of from, left to right
RECURSIVE Replace(_, _, _)
Replace(s, from, to) ==
    IF s = <<>> THEN <<>>
    ELSE IF StartsWith(s, from)
         THEN to \o Replace(SubSeq(s, Len(from) + 1, Len(s)), from, to)
         ELSE <<s[1]>> \o Replace(Tail(s), from, to)

Wild == <<"/", "*", "*">>                                \* "/**"
P_ping == <<"/", "p", "i", "n", "g">>                    \* "/ping"
P_sleep == <<"/", "s", "l", "e", "e", "p">>              \* "/sleep"
P_static == <<"/", "s", "t", "a", "t", "i", "c">>        \* "/static"
P_staticx == P_static \o <<"x">>                         \* "/staticx"
P_static_img == P_static \o <<"/", "i", "m", "g", "/", "a", ".", "p", "n", "g">>
Pat_static == P_static \o Wild                           \* "/static/**"
Pat_nested == Wild \o P_static \o Wild                   \* "/**/static/**"

\* Option<T>: None is the empty sequence, Some(x) the one-element sequence
None == <<>>
Some(x) == <<x>>

Methods == {"GET", "POST"}
NoMatch == 0

\* ----------------------------------------------------------- HttpResponse
HttpResponse_new(code) ==
    [status_code |-> code, headers |-> None, body |-> None, view |-> None,
     file |-> None]
HttpResponse_json(json) ==
    [status_code |-> 200,
     headers |-> Some([k \in {"Content-Type"} |-> "application/json"]),
     body |-> Some(json), view |-> None, file |-> None]

\* ----------------------------------------------------------------- tables
\* the registrations of main()
MainHandlers ==
    << [method |-> None, path |-> Pat_static, handler |-> 1],
       [method |-> Some("GET"), path |-> P_ping, handler |-> 2],
       [method |-> Some("GET"), path |-> P_sleep, handler |-> 3] >>
MainMiddlewares ==
    << [method |-> None, path |-> Wild, order |-> 0] >>

Patterns == {P_ping, Pat_static, Wild, Pat_nested}
Paths == {P_ping, P_static, P_staticx, P_static_img}
MethodFilters == {None} \cup {Some(m) : m \in {"GET"}}
Orders == {0, 1}

\* add_handler / add_any_method_handler push in call order; the handler of
\* the i-th registration is identified by i
RouteTables ==
    UNION { { [i \in 1..n |-> [method |-> t[i].method, path |-> t[i].path,
                                handler |-> i]] :
                t \in [1..n -> [method : MethodFilters, path : Patterns]] } :
            n \in 0..MaxRoutes }
MiddlewareTables ==
    UNION { [1..n -> [method : MethodFilters, path : Patterns, order : Orders]] :
            n \in 0..MaxMw }

\* What a MiddlewareFunc does with the chain and the context, in order.
MiddlewareFuncs ==
    { <<"next">>,               \* the logging middleware of main()
      <<"set", "abort">>,
      <<"abort">>,
      <<"abort", "next">>,
      <<>>,
      <<"next", "next">> }
\* An HttpHandler sets the response or leaves it alone.
HandlerFuncs == {"set", "leave"}

\* ----------------------------------------------------------------- Router
\* variant: the method filter is not applied
is_match_any_method(req, mapping) ==
    \/ mapping.path = req.path
    \/ /\ EndsWith(mapping.path, Wild)
       /\ StartsWith(req.path, Replace(mapping.path, Wild, <<>>))

is_match(req, mapping) ==
    IF mapping.method # None /\ mapping.method[1] # req.method
    THEN FALSE
    ELSE \/ mapping.path = req.path
         \/ /\ EndsWith(mapping.path, Wild)
            /\ StartsWith(req.path, Replace(mapping.path, Wild, <<>>))

\* self.handlers.iter().find(..): index of the first match, NoMatch for None
find_handler(req) ==
    IF \E i \in DOMAIN handlers : is_match(req, handlers[i])
    THEN CHOOSE i \in DOMAIN handlers :
            /\ is_match(req, handlers[i])
            /\ \A j \in 1..(i - 1) : ~is_match(req, handlers[j])
    ELSE NoMatch

\* the filter closure of dispatch_request
middleware_filter(req, m) ==
    /\ (m.method = None \/ m.method[1] = req.method)
    /\ \/ m.path = Wild
       \/ (EndsWith(m.path, Wild) /\ Replace(m.path, Wild, <<>>) = req.path)
       \/ m.path = req.path

\* .filter(..).collect(): the indices that pass, in table order
RECURSIVE matched_middlewares_from(_, _)
matched_middlewares_from(req, i) ==
    IF i > Len(middlewares) THEN <<>>
    ELSE (IF middleware_filter(req, middlewares[i]) THEN <<i>> ELSE <<>>)
         \o matched_middlewares_from(req, i + 1)
matched_middlewares(req) == matched_middlewares_from(req, 1)

\* -------------------------------------------------------- MiddlewareChain
\* abort_index and index are i8; with at most MaxMw + 1 middlewares neither
\* leaves 0..127.
MiddlewareChain_new(handler, mws) ==
    [handler |-> handler, middlewares |-> mws, abort_index |-> -1, index |-> 0]
NoChain == MiddlewareChain_new(NoMatch, <<>>)

is_abort(ch) == ch.abort_index # -1

\* MiddlewareChain::next on chain ch with the calls st in progress: invoke
\* the middleware under the cursor and return when it returns, or else call
\* the route handler (which runs to its end here).
MiddlewareChain_next(ch, st, tr) ==
    IF ch.index < Len(ch.middlewares) /\ ~is_abort(ch)
    THEN /\ chain' = [ch EXCEPT !.index = @ + 1]
         /\ \E f \in MiddlewareFuncs :
               stack' = Append(st, [mw |-> ch.middlewares[ch.index + 1],
                                     todo |-> f])
         /\ trace' = Append(tr, <<"mw", ch.middlewares[ch.index + 1]>>)
         /\ ctxResponse' = ctxResponse
    ELSE /\ chain' = ch
         /\ stack' = st
         /\ trace' = Append(tr, <<"handler", ch.handler>>)
         /\ \E hf \in HandlerFuncs :
               ctxResponse' = IF hf = "set"
                              THEN Some(HttpResponse_json("handler"))
                              ELSE ctxResponse

\* dispatch_request returns ctx.response once chain.next has returned
Returned == /\ dpc' = IF stack' = <<>> THEN "done" ELSE "chain"
            /\ result' = IF stack' = <<>> THEN ctxResponse' ELSE None

\* dispatch_request up to its call of chain.next (lines 225-249); without a
\* match it returns the bare 404 at once.
dispatch_request(req) ==
    /\ dpc = "idle"
    /\ request' = Some(req)
    /\ matched' = find_handler(req)
    /\ IF matched' = NoMatch
       THEN /\ result' = Some(HttpResponse_new(404))
            /\ dpc' = "done"
            /\ UNCHANGED <<chain, ctxResponse, stack, trace>>
       ELSE /\ MiddlewareChain_next(
                  MiddlewareChain_new(handlers[matched'].handler,
                                      matched_middlewares(req)),
                  <<>>, <<>>)
            /\ Returned
    /\ UNCHANGED <<handlers, middlewares>>
    /\ UNCHANGED <<poolVars, ioVars>>

Top == stack[Len(stack)]
Advance == [stack EXCEPT ![Len(stack)].todo = Tail(@)]
InMiddleware(op) ==
    /\ dpc = "chain"
    /\ stack # <<>>
    /\ Top.todo # <<>>
    /\ Head(Top.todo) = op

\* the running middleware calls ctx.set_response
Middleware_set ==
    /\ InMiddleware("set")
    /\ ctxResponse' = Some(HttpResponse_new(403))
    /\ stack' = Advance
    /\ trace' = Append(trace, <<"set", Top.mw>>)
    /\ UNCHANGED <<handlers, middlewares, dpc, request, matched, chain, result>>
    /\ UNCHANGED <<poolVars, ioVars>>

\* the running middleware calls chain.abort()
abort(ch) == [ch EXCEPT !.abort_index = ch.index]
Middleware_abort ==
    /\ InMiddleware("abort")
    /\ chain' = abort(chain)
    /\ stack' = Advance
    /\ trace' = Append(trace, <<"abort", Top.mw, ctxResponse>>)
    /\ UNCHANGED <<handlers, middlewares, dpc, request, matched, ctxResponse,
                   result>>
    /\ UNCHANGED <<poolVars, ioVars>>

\* the running middleware calls chain.next(ctx)
Middleware_next ==
    /\ InMiddleware("next")
    /\ MiddlewareChain_next(chain, Advance, Append(trace, <<"next", Top.mw>>))
    /\ UNCHANGED <<handlers, middlewares, dpc, request, matched, result>>
    /\ UNCHANGED <<poolVars, ioVars>>

\* the running middleware returns; next returns to its caller (line 123)
Middleware_return ==
    /\ dpc = "chain"
    /\ stack # <<>>
    /\ Top.todo = <<>>
    /\ stack' = SubSeq(stack, 1, Len(stack) - 1)
    /\ ctxResponse' = ctxResponse
    /\ Returned
    /\ UNCHANGED <<handlers, middlewares, request, matched, chain, trace>>
    /\ UNCHANGED <<poolVars, ioVars>>

\* the job goes on to handler_response and ends; the context is dropped
Request_done ==
    /\ dpc = "done"
    /\ dpc' = "idle"
    /\ request' = None
    /\ matched' = NoMatch
    /\ chain' = NoChain
    /\ ctxResponse' = None
    /\ stack' = <<>>
    /\ trace' = <<>>
    /\ result' = None
    /\ UNCHANGED <<handlers, middlewares>>
    /\ UNCHANGED <<poolVars, ioVars>>

Requests == [method : Methods, path : Paths]

DispNext ==
    \/ \E req \in Requests : dispatch_request(req)
    \/ Middleware_set
    \/ Middleware_abort
    \/ Middleware_next
    \/ Middleware_return
    \/ Request_done

DispIdle ==
    /\ dpc = "idle"
    /\ request = None
    /\ matched = NoMatch
    /\ chain = NoChain
    /\ ctxResponse = None
    /\ stack = <<>>
    /\ trace = <<>>
    /\ result = None

\* ================================================================= parser
Lowers == <<"a", "b", "c", "d", "e", "f", "g", "h", "i", "j", "k", "l", "m",
            "n", "o", "p", "q", "r", "s", "t", "u", "v", "w", "x", "y", "z">>
Uppers == <<"A", "B", "C", "D", "E", "F", "G", "H", "I", "J", "K", "L", "M",
            "N", "O", "P", "Q", "R", "S", "T", "U", "V", "W", "X", "Y", "Z">>
\* str::to_uppercase / str::to_lowercase on the letters a-z
to_uppercase(s) ==
    [i \in 1..Len(s) |->
        IF \E k \in 1..26 : Lowers[k] = s[i]
        THEN Uppers[CHOOSE k \in 1..26 : Lowers[k] = s[i]]
        ELSE s[i]]
to_lowercase(s) ==
    [i \in 1..Len(s) |->
        IF \E k \in 1..26 : Uppers[k] = s[i]
        THEN Lowers[CHOOSE k \in 1..26 : Uppers[k] = s[i]]
        ELSE s[i]]

\* str::find: index (from 1) of the first occurrence of pat, 0 for None
Find(s, pat) ==
    IF \E i \in 1..Len(s) : StartsWith(SubSeq(s, i, Len(s)), pat)
    THEN CHOOSE i \in 1..Len(s) :
            /\ StartsWith(SubSeq(s, i, Len(s)), pat)
            /\ \A j \in 1..(i - 1) : ~StartsWith(SubSeq(s, j, Len(s)), pat)
    ELSE 0

\* str::split_whitespace: the maximal runs of non-space characters
RECURSIVE split_whitespace(_)
split_whitespace(s) ==
    IF s = <<>> THEN <<>>
    ELSE IF s[1] = " " THEN split_whitespace(Tail(s))
    ELSE LET sp == Find(s, <<" ">>)
             n == IF sp = 0 THEN Len(s) + 1 ELSE sp
         IN <<SubSeq(s, 1, n - 1)>> \o split_whitespace(SubSeq(s, n, Len(s)))

\* [String]::join
RECURSIVE Join(_, _)
Join(ls, sep) ==
    IF ls = <<>> THEN <<>>
    ELSE IF Len(ls) = 1 THEN ls[1]
    ELSE ls[1] \o sep \o Join(Tail(ls), sep)

\* Iterator::take_while(|line| !line.is_empty())
RECURSIVE take_while_nonempty(_)
take_while_nonempty(ls) ==
    IF ls = <<>> \/ ls[1] = <<>> THEN <<>>
    ELSE <<ls[1]>> \o take_while_nonempty(Tail(ls))

CRLF == <<"\r", "\n">>
W_GET == <<"G", "E", "T">>
W_get == <<"g", "e", "t">>
W_FOO == <<"F", "O", "O">>
W_version == <<"H", "T", "T", "P", "/", "1", ".", "1">>
W_target == P_ping \o <<"?", "a", "=", "1">>               \* "/ping?a=1"
SP == <<" ">>

\* HttpMethod::name_of: Some(method) for the seven names, None otherwise
MethodNames ==
    { <<"G", "E", "T">>, <<"P", "O", "S", "T">>, <<"P", "U", "T">>,
      <<"D", "E", "L", "E", "T", "E">>, <<"H", "E", "A", "D">>,
      <<"O", "P", "T", "I", "O", "N", "S">>, <<"T", "R", "A", "C", "E">> }
name_of(name) == IF name \in MethodNames THEN Some(name) ELSE None

\* request lines tried: well formed, lower-case method, unknown method, two
\* tokens, four tokens
RequestLines ==
    { W_GET \o SP \o W_target \o SP \o W_version,
      W_get \o SP \o P_ping \o SP \o W_version,
      W_FOO \o SP \o P_ping \o SP \o W_version,
      W_GET \o SP \o P_ping,
      W_GET \o SP \o P_ping \o SP \o W_version \o SP \o <<"x">> }
L_header == <<"h", ":", " ", "v">>       \* "h: v"
L_noheader == <<"h", "v">>               \* no ": " in it
L_text == <<"b">>
FollowingLines == {L_header, L_noheader, L_text, <<>>}

\* HashMap::insert on a map kept as a set of <<key, value>> pairs
map_insert(m, k, v) == {p \in m : p[1] # k} \cup {<<k, v>>}

\* the header loop of parse_http_request from line i on: the map, and the i
\* the loop stops at
RECURSIVE parse_headers(_, _, _)
parse_headers(lines, i, m) ==
    IF i <= Len(lines) /\ lines[i] # <<>>
    THEN LET at == Find(lines[i], <<":", " ">>)
         IN parse_headers(lines, i + 1,
               IF at = 0 THEN m
               ELSE map_insert(m, SubSeq(lines[i], 1, at - 1),
                               SubSeq(lines[i], at + 2, Len(lines[i]))))
    ELSE [headers |-> m, i |-> i]

\* the decomposition of the request target into path, hash and query string
parse_target(part_url) ==
    LET hash_i == Find(part_url, <<"#">>)
        q_i == Find(part_url, <<"?">>)
    IN IF hash_i # 0
       THEN LET _hash == SubSeq(part_url, hash_i + 1, Len(part_url))
                hq_i == Find(_hash, <<"?">>)
            IN [path |-> SubSeq(part_url, 1, hash_i - 1),
                hash |-> IF hq_i = 0 THEN Some(_hash)
                         ELSE Some(SubSeq(_hash, 1, hq_i - 1)),
                query_string |-> IF hq_i = 0 THEN None
                                 ELSE Some(SubSeq(_hash, hq_i + 1, Len(_hash)))]
       ELSE IF q_i # 0
       THEN [path |-> SubSeq(part_url, 1, q_i - 1), hash |-> None,
             query_string |-> Some(SubSeq(part_url, q_i + 1, Len(part_url)))]
       ELSE [path |-> part_url, hash |-> None, query_string |-> None]

\* parse_http_request on the lines the peer sent; peer says whether
\* stream.peer_addr() succeeds.  Lines 1-based: lines[1] is the request line,
\* the header loop starts at the second line.  "panic" is the unwrap of
\* name_of(..) on a method that is not in the enum.
parse_http_request(sent, peer) ==
    LET lines == take_while_nonempty(sent)
        request_line == IF lines = <<>> THEN <<>> ELSE split_whitespace(lines[1])
        hdr == parse_headers(lines, 2, {})
        \* i + 1 < lines.len(), with the 0-based i = hdr.i - 1
        body == IF hdr.i < Len(lines)
                THEN Some(Join(SubSeq(lines, hdr.i + 1, Len(lines)), CRLF))
                ELSE None
    IN IF lines = <<>> THEN [tag |-> "Err"]
       ELSE IF Len(request_line) # 3 THEN [tag |-> "Err"]
       ELSE IF ~peer THEN [tag |-> "Err"]
       ELSE IF name_of(to_uppercase(request_line[1])) = None THEN [tag |-> "panic"]
       ELSE LET url == parse_target(request_line[2])
            IN [tag |-> "Ok",
                req |-> [version |-> request_line[3],
                         method |-> name_of(to_uppercase(request_line[1]))[1],
                         path |-> url.path,
                         hash |-> url.hash,
                         query_string |-> url.query_string,
                         headers |-> hdr.headers,
                         body |-> body]]

\* The job of HttpServer::run up to the dispatch: parse; on Err shut the
\* connection down and produce no response; a panic unwinds the worker.
Job_parse ==
    /\ jpc = "start"
    /\ parsed' = parse_http_request(conn, peerOk)
    /\ jpc' = CASE parsed'.tag = "Ok" -> "parsed"
              [] parsed'.tag = "Err" -> "end"
              [] OTHER -> "panicked"
    /\ shut' = (parsed'.tag = "Err")
    /\ UNCHANGED <<conn, peerOk, responded>>
    /\ UNCHANGED <<poolVars, dispVars, queryVars, writerVars>>

\* Ok(request): dispatch_request gives Some(response), written by
\* handler_response, or None; the job returns.
Job_respond ==
    /\ jpc = "parsed"
    /\ \E some \in BOOLEAN : responded' = some
    /\ jpc' = "end"
    /\ UNCHANGED <<conn, peerOk, parsed, shut>>
    /\ UNCHANGED <<poolVars, dispVars, queryVars, writerVars>>

ParseNext ==
    \/ Job_parse
    \/ Job_respond

Connections ==
    {<<>>} \cup
    UNION { { <<first>> \o rest :
                first \in RequestLines \cup {<<>>}, rest \in [1..n -> FollowingLines] } :
            n \in 0..MaxLines }

ParseIdle ==
    /\ jpc = "start"
    /\ parsed = [tag |-> "none"]
    /\ shut = FALSE
    /\ responded = FALSE

\* ============================================================ query string
\* str::split(c): the pieces between the occurrences of c ("" gives one
\* empty piece)
RECURSIVE Split(_, _)
Split(s, c) ==
    LET at == Find(s, <<c>>)
    IN IF at = 0 THEN <<s>>
       ELSE <<SubSeq(s, 1, at - 1)>> \o Split(SubSeq(s, at + 1, Len(s)), c)

\* HashMap::get on a map kept as a set of <<key, value>> pairs
map_get(m, k) ==
    IF \E p \in m : p[1] = k THEN Some((CHOOSE p \in m : p[1] = k)[2]) ELSE None

\* the loop of query_all over the pieces, from the map m
RECURSIVE parse_params(_, _)
parse_params(pieces, m) ==
    IF pieces = <<>> THEN m
    ELSE LET pv == pieces[1]
             eq == Find(pv, <<"=">>)                     \* split_once("=")
         IN parse_params(Tail(pieces),
               IF eq = 0
               THEN map_insert(m, pv, <<>>)
               ELSE LET k == SubSeq(pv, 1, eq - 1)
                        v == SubSeq(pv, eq + 1, Len(pv))
                        old == IF map_get(m, k) = None THEN <<>> ELSE map_get(m, k)[1]
                    IN map_insert(m, k, Append(old, v)))

QueryChars == {"a", "1", "=", "&"}
Q_example == <<"a", "=", "1", "&", "a", "=", "2", "&", "b", "=", "3">>
QueryStrings ==
    {Q_example} \cup UNION { [1..n -> QueryChars] : n \in 0..MaxQueryLen }
QueryKeys == {<<"a">>, <<"b">>, <<"1">>, <<>>}

\* HttpRequest::query_all(key)
query_all(key) ==
    /\ key \in QueryKeys
    /\ qkey' = key
    /\ IF query_string = None
       THEN /\ qres' = None
            /\ UNCHANGED params
       ELSE /\ params' = IF params = None
                         THEN Some(parse_params(Split(query_string[1], "&"), {}))
                         ELSE params
            /\ qres' = map_get(params'[1], key)
    /\ UNCHANGED query_string
    /\ UNCHANGED <<poolVars, dispVars, parseVars, writerVars>>

\* HttpRequest::query(key): the first value of query_all(key)
query(key) ==
    /\ key \in QueryKeys
    /\ qkey' = key
    /\ IF query_string = None
       THEN /\ qres' = None
            /\ UNCHANGED params
       ELSE /\ params' = IF params = None
                         THEN Some(parse_params(Split(query_string[1], "&"), {}))
                         ELSE params
            /\ qres' = LET all == map_get(params'[1], key)
                       IN IF all = None \/ all[1] = <<>> THEN None
                          ELSE Some(all[1][1])
    /\ UNCHANGED query_string
    /\ UNCHANGED <<poolVars, dispVars, parseVars, writerVars>>

QueryNext ==
    \/ \E key \in QueryKeys : query_all(key)
    \/ \E key \in QueryKeys : query(key)

QueryIdle ==
    /\ params = None
    /\ qkey = <<>>
    /\ qres = None

\* ================================================================ writer
\* CONTENT_TYPE_MAP of mime_type.rs: <<extension, content type>>
CONTENT_TYPE_MAP ==
    {
      <<<<"h", "t", "m", "l">>, "text/html">>,
      <<<<"h", "t", "m">>, "text/html">>,
      <<<<"c", "s", "s">>, "text/css">>,
      <<<<"j", "s">>, "application/javascript">>,
      <<<<"m", "j", "s">>, "application/javascript">>,
      <<<<"j", "p", "g">>, "image/jpeg">>,
      <<<<"j", "p", "e", "g">>, "image/jpeg">>,
      <<<<"p", "n", "g">>, "image/png">>,
      <<<<"g", "i", "f">>, "image/gif">>,
      <<<<"b", "m", "p">>, "image/bmp">>,
      <<<<"s", "v", "g">>, "image/svg+xml">>,
      <<<<"w", "e", "b", "p">>, "image/webp">>,
      <<<<"t", "t", "f">>, "font/ttf">>,
      <<<<"o", "t", "f">>, "font/otf">>,
      <<<<"w", "o", "f", "f">>, "font/woff">>,
      <<<<"w", "o", "f", "f", "2">>, "font/woff2">>,
      <<<<"m", "p", "4">>, "video/mp4">>,
      <<<<"w", "e", "b", "m">>, "video/webm">>,
      <<<<"o", "g", "g">>, "video/ogg">>,
      <<<<"m", "p", "3">>, "audio/mpeg">>,
      <<<<"w", "a", "v">>, "audio/wav">>,
      <<<<"j", "s", "o", "n">>, "application/json">>,
      <<<<"x", "m", "l">>, "application/xml">>,
      <<<<"p", "d", "f">>, "application/pdf">>,
      <<<<"z", "i", "p">>, "application/zip">>,
      <<<<"g", "z">>, "application/gzip">>,
      <<<<"t", "x", "t">>, "text/plain">> }

Last(s) == s[Len(s)]

\* get_content_type: the table entry of file_path.split('.').last()
get_content_type(file_path) ==
    LET extension == Last(Split(file_path, "."))
    IN IF map_get(CONTENT_TYPE_MAP, extension) # None
       THEN map_get(CONTENT_TYPE_MAP, extension)[1]
       ELSE "application/octet-stream"

\* HttpResponse::view / HttpResponse::file
HttpResponse_view(view_name) ==
    [status_code |-> 200,
     headers |-> Some([k \in {"Content-Type"} |-> "text/html"]),
     body |-> None, view |-> Some(view_name), file |-> None]
HttpResponse_file(path) ==
    [status_code |-> 200,
     headers |-> Some([k \in {"Content-Type"} |-> "text/html"]),
     body |-> None, view |-> None, file |-> Some(path)]

\* HashMap insert / remove on a header map kept as a function
headers_insert(h, key, value) ==
    [k \in DOMAIN h \cup {key} |-> IF k = key THEN value ELSE h[k]]
headers_remove(h, key) == [k \in DOMAIN h \ {key} |-> h[k]]

F_app_json == <<"a", "p", "p", ".", "j", "s", "o", "n">>
F_app_JSON == <<"a", "p", "p", ".", "J", "S", "O", "N">>
F_a_tar_gz == <<"a", ".", "t", ".", "g", "z">>
F_README == <<"R", "E", "A", "D", "M", "E">>
V_index == <<"i", "n", "d", "e", "x", ".", "h", "t", "m", "l">>
FilePaths == {F_app_json, F_app_JSON, F_a_tar_gz, F_README}
StatusCodes == {200, 418}
HeaderKeys == {"Content-Type", "X-A"}
HeaderValues == {"text/plain"}
HeaderMaps == { [k \in {} |-> "text/plain"], [k \in {"X-A"} |-> "text/plain"] }
Bodies == {"hi"}

\* the responses the four constructors give
Constructed ==
    {HttpResponse_new(c) : c \in StatusCodes}
    \cup {HttpResponse_json(b) : b \in Bodies}
    \cup {HttpResponse_view(V_index)}
    \cup {HttpResponse_file(p) : p \in FilePaths}

\* the builders; each consumes the response and gives it back changed
Builder_status_code(code) ==
    /\ hpc = "build" /\ nbuild < MaxBuildOps
    /\ response' = [response EXCEPT !.status_code = code]
    /\ nbuild' = nbuild + 1
    /\ UNCHANGED <<hpc, opened, content, todo, out>>
    /\ UNCHANGED <<poolVars, dispVars, parseVars, queryVars>>

Builder_headers(map) ==
    /\ hpc = "build" /\ nbuild < MaxBuildOps
    /\ response' = [response EXCEPT !.headers = Some(map)]
    /\ nbuild' = nbuild + 1
    /\ UNCHANGED <<hpc, opened, content, todo, out>>
    /\ UNCHANGED <<poolVars, dispVars, parseVars, queryVars>>

Builder_add_header(key, value) ==
    /\ hpc = "build" /\ nbuild < MaxBuildOps
    /\ response' =
          [response EXCEPT !.headers =
              Some(headers_insert(IF response.headers = None
                                  THEN [k \in {} |-> value]
                                  ELSE response.headers[1], key, value))]
    /\ nbuild' = nbuild + 1
    /\ UNCHANGED <<hpc, opened, content, todo, out>>
    /\ UNCHANGED <<poolVars, dispVars, parseVars, queryVars>>

Builder_body(b) ==
    /\ hpc = "build" /\ nbuild < MaxBuildOps
    /\ response' = [response EXCEPT !.body = Some(b)]
    /\ nbuild' = nbuild + 1
    /\ UNCHANGED <<hpc, opened, content, todo, out>>
    /\ UNCHANGED <<poolVars, dispVars, parseVars, queryVars>>

\* the reason phrase of write_response_line_header
reason_phrase(code) ==
    CASE code = 200 -> "OK"
      [] code = 400 -> "Bad Request"
      [] code = 401 -> "Unauthorized"
      [] code = 403 -> "Forbidden"
      [] code = 404 -> "Not Found"
      [] code = 500 -> "Internal Server Error"
      [] OTHER -> "Unknown Error"

\* the Err arm of File::open: 404, and Content-Type removed when there are
\* headers
open_failed(resp) ==
    [resp EXCEPT !.status_code = 404,
                 !.headers = IF resp.headers = None THEN None
                             ELSE Some(headers_remove(resp.headers[1], "Content-Type"))]

\* variant: the head is sent before the view or file is opened
handler_response_eager ==
    /\ hpc = "build"
    /\ IF response.body # None
       THEN /\ content' = Some(<<"body", response.body[1]>>)
            /\ UNCHANGED <<response, opened, out>>
       ELSE IF response.view # None \/ response.file # None
       THEN \E ok \in BOOLEAN :
               /\ opened' = IF ok THEN "ok" ELSE "err"
               /\ content' = IF ok THEN Some(<<"copy", IF response.view # None
                                                       THEN response.view[1]
                                                       ELSE response.file[1]>>)
                             ELSE None
               /\ out' = IF ok THEN out
                         ELSE <<<<"status", response.status_code,
                                   reason_phrase(response.status_code)>>>>
               /\ response' = IF ok THEN response ELSE open_failed(response)
       ELSE /\ content' = None
            /\ UNCHANGED <<response, opened, out>>
    /\ hpc' = "status"
    /\ UNCHANGED <<nbuild, todo>>
    /\ UNCHANGED <<poolVars, dispVars, parseVars, queryVars>>

\* handler_response up to its call of write_response_line_header: the branch
\* on the content source and, for a view or a file, File::open, whose outcome
\* is the environment's.
handler_response ==
    /\ hpc = "build"
    /\ IF response.body # None
       THEN /\ content' = Some(<<"body", response.body[1]>>)
            /\ UNCHANGED <<response, opened>>
       ELSE IF response.view # None
       THEN \E ok \in BOOLEAN :
               /\ opened' = IF ok THEN "ok" ELSE "err"
               /\ content' = IF ok THEN Some(<<"copy", response.view[1]>>) ELSE None
               /\ response' = IF ok THEN response ELSE open_failed(response)
       ELSE IF response.file # None
       THEN \E ok \in BOOLEAN :
               /\ opened' = IF ok THEN "ok" ELSE "err"
               /\ content' = IF ok THEN Some(<<"copy", response.file[1]>>) ELSE None
               /\ response' =
                     IF ok
                     THEN IF response.headers = None THEN response
                          ELSE [response EXCEPT !.headers =
                                   Some(headers_insert(response.headers[1],
                                          "Content-Type",
                                          get_content_type(response.file[1])))]
                     ELSE open_failed(response)
       ELSE /\ content' = None
            /\ UNCHANGED <<response, opened>>
    /\ hpc' = "status"
    /\ UNCHANGED <<nbuild, todo, out>>
    /\ UNCHANGED <<poolVars, dispVars, parseVars, queryVars>>

\* Each stream.write(..).unwrap() is one step: the chunk is appended to what
\* the connection has received, or the write fails and the unwrap panics.
\* write_response_line_header: the status line
write_status ==
    /\ hpc = "status"
    /\ \E ok \in BOOLEAN :
          IF ok
          THEN /\ out' = Append(out, <<"status", response.status_code,
                                       reason_phrase(response.status_code)>>)
               /\ hpc' = "headers"
               /\ todo' = IF response.headers = None THEN {}
                          ELSE DOMAIN response.headers[1]
          ELSE /\ hpc' = "panicked"
               /\ UNCHANGED <<out, todo>>
    /\ UNCHANGED <<response, nbuild, opened, content>>
    /\ UNCHANGED <<poolVars, dispVars, parseVars, queryVars>>

\* write_response_line_header: one header line, in the map's iteration order
\* (any order)
write_header ==
    /\ hpc = "headers"
    /\ \E key \in todo, ok \in BOOLEAN :
          IF ok
          THEN /\ out' = Append(out, <<"header", key, response.headers[1][key]>>)
               /\ todo' = todo \ {key}
               /\ UNCHANGED hpc
          ELSE /\ hpc' = "panicked"
               /\ UNCHANGED <<out, todo>>
    /\ UNCHANGED <<response, nbuild, opened, content>>
    /\ UNCHANGED <<poolVars, dispVars, parseVars, queryVars>>

\* variant: the blank line does not wait for the headers
write_blank_early ==
    /\ hpc = "headers"
    /\ \E ok \in BOOLEAN :
          IF ok
          THEN /\ out' = Append(out, <<"blank">>)
               /\ hpc' = IF content = None THEN "done" ELSE "content"
          ELSE /\ hpc' = "panicked"
               /\ UNCHANGED out
    /\ UNCHANGED <<response, nbuild, opened, content, todo>>
    /\ UNCHANGED <<poolVars, dispVars, parseVars, queryVars>>

\* write_response_line_header: the blank line, after the last header
write_blank ==
    /\ hpc = "headers"
    /\ todo = {}
    /\ \E ok \in BOOLEAN :
          IF ok
          THEN /\ out' = Append(out, <<"blank">>)
               /\ hpc' = IF content = None THEN "done" ELSE "content"
          ELSE /\ hpc' = "panicked"
               /\ UNCHANGED out
    /\ UNCHANGED <<response, nbuild, opened, content, todo>>
    /\ UNCHANGED <<poolVars, dispVars, parseVars, queryVars>>

\* stream.write(body) of the body branch, io::copy(file, stream) of the view
\* and file branches
write_content ==
    /\ hpc = "content"
    /\ \E ok \in BOOLEAN :
          IF ok
          THEN /\ out' = Append(out, content[1])
               /\ hpc' = "done"
          ELSE /\ hpc' = "panicked"
               /\ UNCHANGED out
    /\ UNCHANGED <<response, nbuild, opened, content, todo>>
    /\ UNCHANGED <<poolVars, dispVars, parseVars, queryVars>>

WriterNext ==
    \/ \E code \in StatusCodes : Builder_status_code(code)
    \/ \E map \in HeaderMaps : Builder_headers(map)
    \/ \E key \in HeaderKeys, value \in HeaderValues : Builder_add_header(key, value)
    \/ \E b \in Bodies : Builder_body(b)
    \/ handler_response
    \/ write_status
    \/ write_header
    \/ write_blank
    \/ write_content

WriterIdle ==
    /\ nbuild = 0
    /\ hpc = "build"
    /\ opened = "none"
    /\ content = None
    /\ todo = {}
    /\ out = <<>>

\* ------------------------------------------------------------------- Init
Outcomes == {"ok", "panic"}

PoolInit ==
    /\ poolState = "none"
    /\ size = 0
    /\ wpc = <<>>
    /\ wjob = <<>>
    /\ wrem = <<>>
    /\ lockHolder = NoWorker
    /\ queue = <<>>
    /\ txOpen = FALSE
    /\ joinIdx = 0
    /\ nsub = 0
    /\ accepted = {}
    /\ started = <<>>
    /\ completed = <<>>
    /\ startedBy = [j \in 1..Len(plan) |-> {}]
    /\ lastResult = "none"
    /\ logged = 0
    /\ acceptLoop = "running"
    /\ newArg = NoArg
    /\ pendingAtDrop = {}

\* the server of main(), nothing being dispatched
\* no connection being served outside the pool and the dispatcher
IoIdle ==
    /\ conn = <<>>
    /\ peerOk = TRUE
    /\ ParseIdle
    /\ query_string = None
    /\ QueryIdle
    /\ response = HttpResponse_new(200)
    /\ WriterIdle

MainServer ==
    /\ handlers = MainHandlers
    /\ middlewares = MainMiddlewares
    /\ DispIdle

Init ==
    /\ \E n \in 1..MaxJobs :
          plan \in [1..n -> [dur : {0}, outcome : Outcomes]]
    /\ PoolInit
    /\ MainServer
    /\ IoIdle

InitTimed ==
    /\ \E n \in 1..MaxTimedJobs :
          plan \in [1..n -> [dur : Durations, outcome : {"ok"}]]
    /\ PoolInit
    /\ MainServer
    /\ IoIdle

\* Either table is the one main() registers while the other ranges over the
\* bounded tables.
InitDispatch ==
    /\ plan = <<>>
    /\ PoolInit
    /\ DispIdle
    /\ IoIdle
    /\ \/ handlers \in RouteTables /\ middlewares = MainMiddlewares
       \/ handlers = MainHandlers /\ middlewares \in MiddlewareTables

PoolNext ==
    \/ \E sz \in 0..MaxSize : ThreadPool_new(sz)
    \/ HttpServer_run
    \/ \E w \in Workers : Worker_lock(w)
    \/ \E w \in Workers : Worker_recv(w)
    \/ \E w \in Workers : Worker_job(w)
    \/ Drop_begin
    \/ Drop_join

Next == PoolNext

\* tests::test_thread_pool: the pool goes out of scope after the loop over rx
\* has ended, that is after every job has run and dropped its Sender clone.
Test_end ==
    /\ Len(completed) = Len(plan)
    /\ Drop_begin

NextTimed ==
    \/ \E sz \in 0..MaxSize : ThreadPool_new(sz)
    \/ HttpServer_run
    \/ \E w \in Workers : Worker_lock(w)
    \/ \E w \in Workers : Worker_recv(w)
    \/ \E w \in Workers : Worker_job(w)
    \/ Test_end
    \/ Drop_join
    \/ Tick

Spec == Init /\ [][Next]_vars

SpecTimed == InitTimed /\ [][NextTimed]_vars

\* Jobs that return and one job that never does; every worker thread that
\* can take a step is eventually scheduled.
StallOutcomes == {"ok", "stall"}
InitStall ==
    /\ \E n \in 1..MaxJobs :
          /\ plan \in [1..n -> [dur : {0}, outcome : StallOutcomes]]
          /\ Cardinality({j \in 1..n : plan[j].outcome = "stall"}) = 1
    /\ PoolInit
    /\ MainServer
    /\ IoIdle
WorkerIds == 0..(MaxSize - 1)
Scheduling ==
    \A w \in WorkerIds :
       /\ WF_vars(Worker_lock(w))
       /\ WF_vars(Worker_recv(w))
       /\ WF_vars(Worker_job(w))
SpecStall == InitStall /\ [][Next]_vars /\ Scheduling

\* Jobs that return or panic (Init); the threads are scheduled: while a worker
\* can take a step or the join drop waits on is ready, one of these steps is
\* taken.
ThreadStep ==
    \/ \E w \in Workers : Worker_lock(w) \/ Worker_recv(w) \/ Worker_job(w)
    \/ Drop_join
SpecDrain == Init /\ [][Next]_vars /\ WF_vars(ThreadStep)

NextDispatch == DispNext

SpecDispatch == InitDispatch /\ [][NextDispatch]_vars

\* one connection, any of the bounded inputs
InitParse ==
    /\ plan = <<>>
    /\ PoolInit
    /\ MainServer
    /\ conn \in Connections
    /\ peerOk \in BOOLEAN
    /\ ParseIdle
    /\ query_string = None
    /\ QueryIdle
    /\ response = HttpResponse_new(200)
    /\ WriterIdle

NextParse == ParseNext

SpecParse == InitParse /\ [][NextParse]_vars

\* one parsed request, with any of the bounded query strings or none
InitQuery ==
    /\ plan = <<>>
    /\ PoolInit
    /\ MainServer
    /\ conn = <<>>
    /\ peerOk = TRUE
    /\ ParseIdle
    /\ query_string \in {None} \cup {Some(q) : q \in QueryStrings}
    /\ QueryIdle
    /\ response = HttpResponse_new(200)
    /\ WriterIdle

NextQuery == QueryNext

SpecQuery == InitQuery /\ [][NextQuery]_vars

\* one response, fresh from any of the constructors
InitWriter ==
    /\ plan = <<>>
    /\ PoolInit
    /\ MainServer
    /\ conn = <<>>
    /\ peerOk = TRUE
    /\ ParseIdle
    /\ query_string = None
    /\ QueryIdle
    /\ response \in Constructed
    /\ WriterIdle

NextWriter == WriterNext

SpecWriter == InitWriter /\ [][NextWriter]_vars

\* =================================================================== claims
IsPrefix(s, t) == Len(s) <= Len(t) /\ \A i \in 1..Len(s) : s[i] = t[i]
Done(j) == j \in Range(completed)
Ascending(s) == \A i, j \in DOMAIN s : i < j => s[i] < s[j]

\* C1: ThreadPool::new(size) returns the configuration error and creates no
\* worker when size < 1; for size >= 1 it returns a pool with exactly size
\* workers (ids 0..size-1), all of them running and, before any job is
\* submitted, all waiting on the one job queue.
C1_NewContract ==
    /\ (newArg # NoArg /\ newArg < 1) => (poolState = "err" /\ Workers = {})
    /\ poolState = "err" => (newArg < 1 /\ Workers = {} /\ ~txOpen)
    /\ (newArg # NoArg /\ newArg >= 1) =>
          /\ poolState # "err"
          /\ size = newArg
          /\ Workers = 0..(newArg - 1)
          /\ Cardinality(Workers) = newArg
    /\ (poolState = "live" /\ nsub = 0) =>
          \A w \in Workers : wpc[w] \in {"lock", "recv"} /\ wjob[w] = NoJob
C1_Witness ==
    /\ poolState = "live" /\ newArg = 2 /\ nsub = 0
    /\ Cardinality(Workers) = 2
    /\ \E w \in Workers : wpc[w] = "recv"

\* C2: dropping the pool closes the submission side, and drop does not return
\* before every worker thread has exited; when it returns, every job execute
\* accepted (in flight or still queued when the drop began) has run to
\* completion and nothing is left in the queue.
C2_DropJoinsAll ==
    /\ poolState \in {"dropping", "dropped", "dropPanicked"} => ~txOpen
    /\ poolState = "dropped" =>
          /\ \A w \in Workers : wpc[w] = "exited"
          /\ \A j \in accepted : Done(j)
          /\ pendingAtDrop \subseteq Range(completed)
          /\ queue = <<>>
C2_Witness ==
    /\ poolState = "dropped"
    /\ Cardinality(pendingAtDrop) >= 2
    /\ Cardinality(accepted) = MaxJobs

\* C3: an execute called when the consuming side of the channel is closed
\* returns the SendError to its caller (no panic, nothing queued), and the
\* accept loop logs it and keeps running.
C3_SubmitAfterClose ==
    [][(nsub' = nsub + 1 /\ RxClosed) =>
          /\ lastResult' = "SendError"
          /\ queue' = queue /\ accepted' = accepted
          /\ logged' = logged + 1
          /\ acceptLoop' = "running"
          /\ poolState' = "live"]_vars
C3_Witness ==
    /\ lastResult = "SendError"
    /\ logged >= 1
    /\ acceptLoop = "running"
    /\ nsub < Len(plan)

\* the pool of tests::test_thread_pool, all four jobs submitted
Scenario ==
    /\ size = 2
    /\ Len(plan) = 4
    /\ plan[1].dur = 5 /\ plan[2].dur = 0 /\ plan[3].dur = 3 /\ plan[4].dur = 0
    /\ nsub = 4

\* C4: jobs leave the queue in submission order, a worker holds a job only
\* while it runs it (so it takes the next one after finishing), and the pool
\* of size 2 given [1: 5s, 2: 0s, 3: 3s, 4: 0s] completes them in the order
\* 2, 3, 4, 1.
C4_CompletionOrder ==
    /\ Ascending(started \o queue)
    /\ \A w \in Workers : (wpc[w] = "run") <=> (wjob[w] # NoJob)
    /\ \A w \in Workers : wpc[w] = "run" =>
          /\ wjob[w] \in Range(started)
          /\ ~Done(wjob[w])
          /\ \A v \in Workers \ {w} : wjob[v] # wjob[w]
    /\ Scenario => IsPrefix(completed, <<2, 3, 4, 1>>)
C4_Witness == Scenario /\ completed = <<2, 3, 4, 1>>

\* C5 as stated: with [A:5s, B:0s, C:3s, D:0s] on two workers, both B and D
\* have completed before A finishes and before C finishes.
C5_Original ==
    Scenario => ((Done(1) \/ Done(3)) => (Done(2) /\ Done(4)))

\* C5 amended: B completes before A and before C; D completes before A, but
\* only after C has finished (both workers are busy with A and C until then).
C5_Amended ==
    Scenario =>
       /\ Done(1) => (Done(2) /\ Done(3) /\ Done(4))
       /\ Done(3) => Done(2)
       /\ Done(4) => Done(3)
C5_Witness == Scenario /\ completed = <<2, 3, 4>> /\ \E w \in Workers : wjob[w] = 1

\* ------------------------------------------------------- dispatch claims
Req == request[1]
StripSuffix(s, suf) == SubSeq(s, 1, Len(s) - Len(suf))
IsInvocation(e) == e[1] \in {"mw", "handler"}
Invocations == SelectSeq(trace, IsInvocation)
NextCalls(i) == Cardinality({p \in DOMAIN trace : trace[p] = <<"next", i>>})

\* the match of the routing contract: method filter absent or equal, and the
\* pattern equal to the path or ending in "/**" with the path starting with
\* the pattern minus that suffix
Contract_match(req, mapping) ==
    /\ (mapping.method = None \/ mapping.method = Some(req.method))
    /\ \/ mapping.path = req.path
       \/ /\ EndsWith(mapping.path, Wild)
          /\ StartsWith(req.path, StripSuffix(mapping.path, Wild))
Contract_first(req) ==
    IF \E i \in DOMAIN handlers : Contract_match(req, handlers[i])
    THEN CHOOSE i \in DOMAIN handlers :
            /\ Contract_match(req, handlers[i])
            /\ \A j \in 1..(i - 1) : ~Contract_match(req, handlers[j])
    ELSE NoMatch

\* C6 as stated: for every request and route table, dispatch selects the
\* first mapping in registration order whose method filter is absent or equal
\* and whose pattern equals the path or ends in the wildcard suffix with the
\* path starting with the stripped prefix (and no mapping when there is none).
C6_Original == dpc # "idle" => matched = Contract_first(Req)

\* C7 as stated: with the single mapping (any method, "/static/**"),
\* /static/img/a.png matches and /staticx does not.
C7_Original ==
    (dpc # "idle" /\ Len(handlers) = 1
       /\ handlers[1].method = None /\ handlers[1].path = Pat_static) =>
          /\ Req.path = P_static_img => matched = 1
          /\ Req.path = P_staticx => matched = NoMatch

\* C8: when no registered route matches the request (the case where only the
\* method differs included: POST /ping against (GET, "/ping")), dispatch
\* returns status 404 with no headers and no content source, and neither a
\* middleware nor a handler has been invoked.
C8_NoMatch404 ==
    /\ (dpc = "done" /\ \A i \in DOMAIN handlers : ~is_match(Req, handlers[i])) =>
          /\ result # None
          /\ result[1].status_code = 404
          /\ result[1].headers = None
          /\ result[1].body = None /\ result[1].view = None /\ result[1].file = None
          /\ trace = <<>> /\ stack = <<>> /\ ctxResponse = None
    /\ (dpc = "done" /\ Req = [method |-> "POST", path |-> P_ping]
          /\ Len(handlers) = 1
          /\ handlers[1].method = Some("GET") /\ handlers[1].path = P_ping) =>
          /\ result = Some(HttpResponse_new(404))
          /\ trace = <<>>
C8_Witness ==
    /\ dpc = "done"
    /\ Req = [method |-> "POST", path |-> P_ping]
    /\ handlers = << [method |-> Some("GET"), path |-> P_ping, handler |-> 1] >>
    /\ middlewares = MainMiddlewares
    /\ result = Some(HttpResponse_new(404))

\* C9 as stated: once a middleware has called abort() without having called
\* next() before, neither the route handler nor any further middleware runs
\* for the request, and dispatch returns the response the context held at
\* that abort.
AbortBeforeNext(p) ==
    /\ trace[p][1] = "abort"
    /\ \A q \in 1..(p - 1) : trace[q] # <<"next", trace[p][2]>>
C9_Original ==
    \A p \in DOMAIN trace :
       AbortBeforeNext(p) =>
          /\ \A q \in (p + 1)..Len(trace) : ~IsInvocation(trace[q])
          /\ dpc = "done" => result = trace[p][3]

\* the filter of the middleware contract: method filter absent or equal, and
\* the pattern the catch-all, or a wildcard pattern whose stripped prefix is
\* the path, or the path itself
Contract_filter(req, m) ==
    /\ (m.method = None \/ m.method = Some(req.method))
    /\ \/ m.path = Wild
       \/ (EndsWith(m.path, Wild) /\ StripSuffix(m.path, Wild) = req.path)
       \/ m.path = req.path
RECURSIVE Contract_chain_from(_, _)
Contract_chain_from(req, i) ==
    IF i > Len(middlewares) THEN <<>>
    ELSE (IF Contract_filter(req, middlewares[i]) THEN << <<"mw", i>> >> ELSE <<>>)
         \o Contract_chain_from(req, i + 1)

\* every middleware invoked so far called next exactly once, none aborted
AllPassOn ==
    \A p \in DOMAIN trace :
       /\ trace[p][1] # "abort"
       /\ trace[p][1] = "mw" => NextCalls(trace[p][2]) = 1

\* C10 as stated: with a matched route and every matched middleware calling
\* next exactly once and none aborting, what is invoked is exactly the
\* middlewares passing the contract's filter, in registration order whatever
\* their order values, each once, and then the route handler once.
C10_Original ==
    (dpc = "done" /\ matched # NoMatch /\ AllPassOn) =>
       Invocations = Contract_chain_from(Req, 1)
                        \o << <<"handler", handlers[matched].handler>> >>

\* --------------------------------------------------------- parser claims
\* the first line of the connection, as whitespace-separated tokens
FirstLineTokens == IF conn = <<>> THEN <<>> ELSE split_whitespace(conn[1])
BadRequestLine ==
    /\ conn # <<>> /\ conn[1] # <<>>
    /\ \/ Len(FirstLineTokens) = 2
       \/ Len(FirstLineTokens) >= 4
       \/ to_uppercase(FirstLineTokens[1]) \notin MethodNames

\* C11 as stated: a request line with 2 or 4-or-more tokens, or whose method
\* (compared case-insensitively) is not one of the seven, makes the parser
\* return a parse failure; the job shuts the connection down, writes no
\* response, and returns, leaving its worker alive.
C11_Original ==
    (jpc # "start" /\ BadRequestLine) =>
       /\ parsed.tag = "Err"
       /\ jpc = "end"
       /\ shut /\ ~responded

\* the lines after the blank line that ends the header block
RECURSIVE AfterBlank(_)
AfterBlank(ls) ==
    IF ls = <<>> THEN <<>>
    ELSE IF ls[1] = <<>> THEN Tail(ls)
    ELSE AfterBlank(Tail(ls))

\* C19 as stated: when the request has lines after the blank line ending the
\* header block, the parsed body is present and is those lines joined with
\* CRLF; it is absent only when there are no such lines.
C19_Original ==
    parsed.tag = "Ok" =>
       parsed.req.body = IF AfterBlank(conn) # <<>>
                         THEN Some(Join(AfterBlank(conn), CRLF))
                         ELSE None

\* ---------------------------------------------------------- query claims
QueryPieces == Split(query_string[1], "&")
PieceKey(pv) ==
    IF Find(pv, <<"=">>) = 0 THEN pv ELSE SubSeq(pv, 1, Find(pv, <<"=">>) - 1)
\* the values of the key=value pieces of key k, in order of appearance
RECURSIVE ValuesOf(_, _)
ValuesOf(pieces, k) ==
    IF pieces = <<>> THEN <<>>
    ELSE LET pv == pieces[1]
             eq == Find(pv, <<"=">>)
         IN (IF eq # 0 /\ SubSeq(pv, 1, eq - 1) = k
             THEN <<SubSeq(pv, eq + 1, Len(pv))>> ELSE <<>>)
            \o ValuesOf(Tail(pieces), k)

\* C12 as stated: after the first access, every key of the query string maps
\* to the list of all values given to it by key=value pieces, in order of
\* appearance, whatever other pieces the string contains (the empty list for
\* a key that only appears bare).
C12_Original ==
    params # None =>
       \A i \in 1..Len(QueryPieces) :
          LET k == PieceKey(QueryPieces[i])
          IN map_get(params[1], k) = Some(ValuesOf(QueryPieces, k))

\* --------------------------------------------------------- writer claims
\* the orders in which a map's keys can be iterated
KeyOrders(S) ==
    {f \in [1..Cardinality(S) -> S] : \A i, j \in 1..Cardinality(S) : f[i] = f[j] => i = j}
ResponseKeys == IF response.headers = None THEN {} ELSE DOMAIN response.headers[1]
\* status line, the headers in one order, blank line
HeadIn(order) ==
    <<<<"status", response.status_code, reason_phrase(response.status_code)>>>>
    \o [i \in 1..Len(order) |-> <<"header", order[i], response.headers[1][order[i]]>>]
    \o <<<<"blank">>>>
\* the complete serialisations of the response being written
Serialisations ==
    {HeadIn(order) \o (IF content = None THEN <<>> ELSE <<content[1]>>) :
        order \in KeyOrders(ResponseKeys)}
Writing == hpc \in {"status", "headers", "content", "done", "panicked"}

\* C13: what the connection has received of a response is at every moment a
\* prefix of: one status line, one line per header of the response, one
\* blank line, the body of the content source if any; and it is the whole of
\* it when the writer returns.  So the status line comes first and once.
C13_WriteOrder ==
    Writing =>
       /\ \E ser \in Serialisations : IsPrefix(out, ser)
       /\ hpc = "done" => out \in Serialisations
\* a response with two headers and a body has been written completely
C13_Witness ==
    /\ hpc = "done"
    /\ Len(out) = 5
    /\ out[5][1] = "body"

\* C14: the view or file is opened before anything of the response is
\* written; when the open fails the status becomes 404, Content-Type is
\* removed, and what is written is the 404 status line, the remaining
\* headers and the blank line, with no body.
C14_OpenFailure ==
    /\ opened = "none" /\ hpc = "build" => out = <<>>
    /\ opened = "err" =>
          /\ response.status_code = 404
          /\ ~("Content-Type" \in ResponseKeys)
          /\ content = None
          /\ \E order \in KeyOrders(ResponseKeys) : IsPrefix(out, HeadIn(order))
          /\ hpc = "done" => \E order \in KeyOrders(ResponseKeys) : out = HeadIn(order)
\* a missing file, answered with the 404 head that kept one header
C14_Witness ==
    /\ opened = "err"
    /\ hpc = "done"
    /\ response.file # None
    /\ out = <<<<"status", 404, "Not Found">>, <<"header", "X-A", "text/plain">>, <<"blank">>>>

\* C15 as stated: for a file that opens, the Content-Type written is the
\* table's entry for the lower-cased text after the last "." of the path,
\* application/octet-stream when the table has none.
C15_Original ==
    (hpc = "done" /\ opened = "ok" /\ response.body = None /\ response.view = None
       /\ response.file # None) =>
       \E i \in 1..Len(out) :
          out[i] = <<"header", "Content-Type",
                     get_content_type(to_lowercase(response.file[1]))>>

\* C17 as stated: a response that reaches the writer has at most one of
\* body, view and file populated.
C17_Original ==
    Writing =>
       Cardinality({f \in {"body", "view", "file"} : response[f] # None}) <= 1

\* ----------------------------------------------------- pool claims, again
\* C16 as stated: a job whose write fails (the unwrap panics: outcome
\* "panic") is the only thing lost; the pool keeps all its size workers and
\* every job accepted is still executed.
C16_Original ==
    poolState = "live" =>
       /\ \A w \in Workers : wpc[w] # "panicked"
       /\ \A j \in accepted :
             (plan[j].outcome = "ok" /\ queue = <<>> /\ \A w \in Workers : wpc[w] # "run")
                => Done(j)

StalledWorkers ==
    {w \in Workers : wpc[w] = "run" /\ plan[wjob[w]].outcome = "stall"}
OneStall ==
    /\ size >= 2
    /\ Cardinality({j \in DOMAIN plan : plan[j].outcome = "stall"}) = 1

\* C20: no worker holds the queue lock while it runs a job; one job that
\* never returns occupies at most one worker; and in a pool of two or more
\* workers with one such job, every other accepted job is eventually
\* completed.
C20_StallBlocksOne ==
    /\ [](\A w \in Workers : wpc[w] = "run" => lockHolder # w)
    /\ [](OneStall => Cardinality(StalledWorkers) <= 1)
    /\ \A j \in 1..MaxJobs :
          (OneStall /\ j \in accepted /\ plan[j].outcome = "ok") ~> Done(j)
\* a job submitted after the stalled one has completed while that one runs
C20_Witness ==
    /\ OneStall
    /\ \E w \in StalledWorkers : \E j \in DOMAIN plan : j > wjob[w] /\ Done(j)

\* ------------------------------------------------------ chain claims, again
\* a middleware that was invoked and called neither next nor abort
Silent(i) ==
    /\ \E p \in DOMAIN trace : trace[p] = <<"mw", i>>
    /\ \A p \in DOMAIN trace : ~(trace[p][1] \in {"next", "abort"} /\ trace[p][2] = i)
NoAbort == \A p \in DOMAIN trace : trace[p][1] # "abort"

\* C18 as stated: when a matched middleware has returned without calling next
\* and without calling abort (and nothing aborted the chain), the route
\* handler has still been invoked by the time dispatch returns.
C18_Original ==
    (dpc = "done" /\ NoAbort /\ \E i \in DOMAIN middlewares : Silent(i)) =>
       \E p \in DOMAIN trace : trace[p][1] = "handler"

\* C21 as stated: whatever the matched middlewares do (next zero, one or
\* several times, abort at any point), the route handler is invoked at most
\* once for the request and each matched middleware at most once.
C21_Original ==
    \A p, q \in DOMAIN trace :
       (IsInvocation(trace[p]) /\ trace[p] = trace[q]) => p = q

\* C22: under every interleaving of submissions and workers, a job is started
\* at most once and by one worker, only accepted jobs are started, no two
\* workers are running the same job, and at most size jobs are running.
RunningWorkers == {w \in Workers : wpc[w] = "run"}
C22_AtMostOnce ==
    /\ \A p, q \in DOMAIN started : started[p] = started[q] => p = q
    /\ \A j \in DOMAIN startedBy : Cardinality(startedBy[j]) <= 1
    /\ Range(started) \subseteq accepted
    /\ \A v, w \in RunningWorkers : wjob[v] = wjob[w] => v = w
    /\ \A w \in RunningWorkers : wjob[w] \in Range(started) /\ startedBy[wjob[w]] = {w}
    /\ Cardinality(RunningWorkers) <= size
\* every worker of a pool of two is running a job of its own, a third job
\* waits in the queue
C22_Witness ==
    /\ size = 2
    /\ Cardinality(RunningWorkers) = 2
    /\ wjob[0] # wjob[1]
    /\ queue # <<>>

\* C23: every job ends (by returning or by panicking).  A drop that has begun
\* always ends: it never waits for ever on a worker, and the lock is free
\* whenever a worker needs it to see the closed channel.  It returns, with
\* the queue drained and every worker exited, whenever no job panicked; a
\* worker killed by a panicking job makes join().unwrap() unwind out of drop
\* instead.
NoPanicPlanned == \A j \in DOMAIN plan : plan[j].outcome # "panic"
C23_DropReturns ==
    /\ (poolState = "dropping") ~>
          \/ poolState = "dropped"
          \/ poolState = "dropPanicked" /\ ~NoPanicPlanned
    /\ [](poolState = "dropped" =>
            /\ queue = <<>>
            /\ lockHolder = NoWorker
            /\ \A w \in Workers : wpc[w] = "exited"
            /\ pendingAtDrop \subseteq Range(completed))
\* a pool of two dropped with jobs still queued has returned from drop
C23_Witness ==
    /\ poolState = "dropped"
    /\ size = 2
    /\ Cardinality(pendingAtDrop) >= 2

====
